---- MODULE Spec2Model ----
(***************************************************************************)
(* A model of angr's path-management core (src/angr/path.py): CallFrame,   *)
(* CallStack, Path and ErroredPath.  Python objects live in heaps (one     *)
(* sequence per class, an object's identity is its index), so that         *)
(* aliasing and mutation through a shared reference are visible.           *)
(*                                                                         *)
(* External collaborators are inputs drawn from small sets: the transfer   *)
(* engine (project.factory.sim_run) either raises one of EngineErrors or   *)
(* returns a run whose successor lists are one of EngineRuns.              *)
(* path_history.py is not part of the sources at hand: PathHistory and the *)
(* address trace are modelled from the specification's description.        *)
(***************************************************************************)
EXTENDS Integers, Sequences, FiniteSets, TLC

VARIABLES
    paths,      \* heap of Path / ErroredPath objects the caller holds
    states,     \* heap of program states (SimState)
    runs,       \* heap of transfer results (SimRun)
    hist,       \* heap of history nodes (PathHistory)
    stacks,     \* heap of CallStack objects: each the list of its frames' ids
    frames,     \* heap of CallFrame objects
    oids,       \* number of merge-ledger list groups allocated so far
    calls,      \* how many times the transfer engine (sim_run) was invoked
    lastOp,     \* what the last operation was, and what the caller got back
    lastStep,   \* per Path: the last step call since the last clear()
    muts        \* how many times a caller changed a CallStack directly

vars == <<paths, states, runs, hist, stacks, frames, oids, calls, lastOp,
          lastStep, muts>>

\* Bounds of the model.
MaxPaths == 3
MaxCalls == 2
MaxMuts == 3

\* The trim_history calls of a behaviour.
MaxTrims == 1

UNAVAILABLE_RET_ADDR == -1

\* Python's None where an integer may stand (object references use id 0).
NoneVal == -2

Addrs == {16, 32}

\* Keys a frame's block counter can hold: block addresses, and None for the
\* initial state, which has no block behind it.
CounterKeys == Addrs \cup {NoneVal}

SysKinds == {"Ijk_Sys_syscall", "Ijk_Sys_int128"}

JumpKinds == {"Ijk_Boring", "Ijk_Call", "Ijk_Ret"} \cup SysKinds

\* The option sets (run_args) a caller passes to step: none, raw instruction
\* bytes to lift, an address (32) to execute at instead of the state's ip.
RunArgs == {"{}", "insn_bytes", "addr"}

\* What sim_run can raise: caught by the first except clause, caught by the
\* second, caught by neither.
EngineErrors == {"SimError", "MemoryError", "KeyError"}

Succ(jk, ip) == [jk |-> jk, ip |-> ip]

\* What sim_run can return: the successor lists of the run.
EngineRuns ==
    {[flat |-> <<>>, unconstrained |-> <<>>, unsat |-> <<>>]}
    \cup {[flat |-> <<Succ(jk, 32)>>, unconstrained |-> <<>>, unsat |-> <<>>] :
              jk \in JumpKinds}
    \cup {[flat |-> <<Succ("Ijk_Boring", 32), Succ("Ijk_Boring", 16)>>,
           unconstrained |-> <<>>, unsat |-> <<>>]}
    \cup {[flat |-> <<Succ("Ijk_Boring", 16)>>,
           unconstrained |-> <<Succ("Ijk_Call", 32)>>,
           unsat |-> <<Succ("Ijk_Boring", 32)>>]}

-----------------------------------------------------------------------------
\* The heaps as one value, so that a constructor is a function on it.

Heap == [paths |-> paths, states |-> states, runs |-> runs, hist |-> hist,
         stacks |-> stacks, frames |-> frames, oids |-> oids]

Commit(H) ==
    /\ paths' = H.paths
    /\ states' = H.states
    /\ runs' = H.runs
    /\ hist' = H.hist
    /\ stacks' = H.stacks
    /\ frames' = H.frames
    /\ oids' = H.oids

Last(s) == s[Len(s)]

Range(s) == {s[i] : i \in 1..Len(s)}

-----------------------------------------------------------------------------
\* CallFrame

EmptyCounter == [a \in CounterKeys |-> 0]

CallFrame(func_addr, stack_ptr, ret_addr, jumpkind) ==
    [func_addr |-> func_addr, stack_ptr |-> stack_ptr, ret_addr |-> ret_addr,
     jumpkind |-> jumpkind, block_counter |-> EmptyCounter]

\* CallFrame(state): the callee's entry, the stack pointer and the return
\* address the state holds (state.ret is the word at sp, or the link register).
CallFrameOfState(s) == CallFrame(s.ip, s.sp, s.ret, s.jk)

CallFrameCopy(f) ==
    [CallFrame(f.func_addr, f.stack_ptr, f.ret_addr, f.jumpkind)
        EXCEPT !.block_counter = f.block_counter]

-----------------------------------------------------------------------------
\* CallStack

NewCallStack(H) == [H EXCEPT !.stacks = Append(@, <<>>)]

CallStackPush(H, c, f) ==
    [H EXCEPT !.frames = Append(@, f),
              !.stacks[c] = Append(@, Len(H.frames) + 1)]

CallStackPop(H, c) ==
    [H EXCEPT !.stacks[c] = SubSeq(@, 1, Len(@) - 1)]

CallStackTop(H, c) == Last(H.stacks[c])

\* A shallow copy: a new list holding the same frame objects.
CallStackCopyShallow(H, c) ==
    [H EXCEPT !.stacks = Append(@, H.stacks[c])]

\* The copy is the newest CallStack of the result; every frame is copied.
CallStackCopy(H, c) ==
    LET src == H.stacks[c]
        n == Len(src)
        base == Len(H.frames)
    IN [H EXCEPT
          !.frames = @ \o [i \in 1..n |-> CallFrameCopy(H.frames[src[i]])],
          !.stacks = Append(@, [i \in 1..n |-> base + i])]

\* What a CallStack holds, frame by frame, bottom first.
CallStackContent(fr, st, c) == [i \in 1..Len(st[c]) |-> fr[st[c][i]]]

\* The comparison without its test of the lengths.
CallStackEqZipOnly(H, c1, c2) ==
    LET s1 == H.stacks[c1]
        s2 == H.stacks[c2]
        n == IF Len(s1) <= Len(s2) THEN Len(s1) ELSE Len(s2)
    IN \A i \in 1..n :
          ~(\/ H.frames[s1[i]].func_addr # H.frames[s2[i]].func_addr
            \/ H.frames[s1[i]].stack_ptr # H.frames[s2[i]].stack_ptr
            \/ H.frames[s1[i]].ret_addr # H.frames[s2[i]].ret_addr)

\* CallStack.__eq__ on two CallStacks: the lengths, then frame by frame
CallStackEq(H, c1, c2) ==
    LET s1 == H.stacks[c1]
        s2 == H.stacks[c2]
    IN IF Len(s1) # Len(s2) THEN FALSE
       ELSE \A i \in 1..Len(s1) :
               ~(\/ H.frames[s1[i]].func_addr # H.frames[s2[i]].func_addr
                 \/ H.frames[s1[i]].stack_ptr # H.frames[s2[i]].stack_ptr
                 \/ H.frames[s1[i]].ret_addr # H.frames[s2[i]].ret_addr)

\* The tuple CallStack.__hash__ hashes: two CallStacks have one hash when
\* they have one tuple.
CallStackHash(H, c) ==
    [i \in 1..Len(H.stacks[c]) |->
        <<H.frames[H.stacks[c][i]].func_addr,
          H.frames[H.stacks[c][i]].stack_ptr,
          H.frames[H.stacks[c][i]].ret_addr>>]

-----------------------------------------------------------------------------
\* PathHistory and the address trace

NewHistory(H, parent) ==
    [H EXCEPT !.hist = Append(@,
        [parent |-> parent, addr |-> NoneVal, jumpkind |-> "None",
         length |-> IF parent = 0 THEN 0 ELSE H.hist[parent].length + 1])]

RecordState(H, n, s) == [H EXCEPT !.hist[n].jumpkind = s.jk]

RecordRun(H, n, r) == [H EXCEPT !.hist[n].addr = H.runs[r].addr]

HistoryCopy(H, n) == [H EXCEPT !.hist = Append(@, H.hist[n])]

RECURSIVE AddrTrace(_, _)
\* addr_trace.hardcopy: the addresses recorded from the root to node n.
AddrTrace(hh, n) ==
    IF n = 0 THEN <<>>
    ELSE LET rest == AddrTrace(hh, hh[n].parent)
         IN IF hh[n].addr = NoneVal THEN rest ELSE Append(rest, hh[n].addr)

-----------------------------------------------------------------------------
\* Path

PathAddr(H, p) == H.states[H.paths[p].state].ip

PathLength(H, p) == H.hist[H.paths[p].history].length

IsSysKindNever(jk) == FALSE

IsSysKind(jk) == jk \in SysKinds

\* After a return: the sentinel frame when the stack ran empty.
AfterRetNoSentinel(H, c) == H

AfterRet(H, c) ==
    IF Len(H.stacks[c]) = 0
    THEN CallStackPush(H, c, CallFrame(0, 0, 0, "None"))
    ELSE H

CountBlockSkip(H, c, a) == H

CountBlockBottom(H, c, a) ==
    IF Len(H.stacks[c]) = 0 THEN H
    ELSE [H EXCEPT !.frames[H.stacks[c][1]].block_counter[a] = @ + 1]

\* callstack.top.block_counter[bbl_addr] += 1 (top raises ValueError on an
\* empty stack, which leaves the counters as they are)
CountBlock(H, c, a) ==
    IF Len(H.stacks[c]) = 0 THEN H
    ELSE [H EXCEPT !.frames[CallStackTop(H, c)].block_counter[a] = @ + 1]

ManageCallstack(H, p, s) ==
    LET c == H.paths[p].callstack
        H1 == IF s.jk = "Ijk_Call" THEN CallStackPush(H, c, CallFrameOfState(s))
              ELSE IF IsSysKind(s.jk) THEN CallStackPush(H, c, CallFrameOfState(s))
              ELSE IF s.jk = "Ijk_Ret"
                   THEN AfterRet(
                          [CallStackPop(H, c) EXCEPT
                              !.paths[p].popped_callframe = CallStackTop(H, c)],
                          c)
                   ELSE H
    IN CountBlock(H1, c, s.bbl_addr)

\* The fields every Path starts with, whichever way it is constructed.
PathRecord(kind, error, sid, h, c, popped, oid, flags, values, traces, depths) ==
    [kind |-> kind, error |-> error, state |-> sid, history |-> h,
     callstack |-> c, popped_callframe |-> popped,
     run_args |-> "None", run |-> 0, run_error |-> "None",
     ledger |-> oid, merge_flags |-> flags, merge_values |-> values,
     merge_addr_traces |-> traces, merge_depths |-> depths]

\* Path(project, state): a fresh root.  The new Path is the newest of the result.
PathInitRoot(H, kind, error, sid) ==
    LET H1 == NewHistory(H, 0)
        H2 == NewCallStack(H1)
        c == Len(H2.stacks)
        s == H.states[sid]
        H3 == CallStackPush(H2, c,
                CallFrame(s.ip, s.sp, UNAVAILABLE_RET_ADDR, "None"))
    IN [H3 EXCEPT
          !.oids = @ + 1,
          !.paths = Append(@, PathRecord(kind, error, sid, Len(H3.hist), c, 0,
                                         H3.oids + 1, <<>>, <<>>, <<>>, <<>>))]

\* Path(project, state, path=parent): a branch of parent.
PathInitChild(H, parent, sid) ==
    LET pr == H.paths[parent]
        s == H.states[sid]
        H1 == NewHistory(H, pr.history)
        h == Len(H1.hist)
        H2 == CallStackCopy(H1, pr.callstack)
        c == Len(H2.stacks)
        H3 == [H2 EXCEPT
                 !.oids = @ + 1,
                 !.paths = Append(@,
                    PathRecord("Path", "None", sid, h, c, pr.popped_callframe,
                               H2.oids + 1, pr.merge_flags, pr.merge_values,
                               pr.merge_addr_traces, pr.merge_depths))]
        p == Len(H3.paths)
        H4 == RecordRun(RecordState(H3, h, s), h, pr.run)
    IN ManageCallstack(H4, p, s)

RECURSIVE PathInitChildren(_, _, _)
\* [ Path(project, s, path=parent) for s in sids ]
PathInitChildren(H, parent, sids) ==
    IF sids = <<>> THEN H
    ELSE PathInitChildren(PathInitChild(H, parent, Head(sids)), parent, Tail(sids))

\* The ids of the n newest Paths of H, oldest first.
Newest(H, n) == [i \in 1..n |-> Len(H.paths) - n + i]

-----------------------------------------------------------------------------
\* The external collaborators

InitialState(a) ==
    [ip |-> a, sp |-> 8, ret |-> NoneVal, jk |-> "Ijk_Boring",
     bbl_addr |-> NoneVal, cons |-> {}]

\* The state a transfer of kind t.jk to t.ip leaves: a call pushes the return
\* address, a return pops it.
SuccState(ps, t) ==
    [ip |-> t.ip,
     sp |-> IF t.jk = "Ijk_Call" THEN ps.sp - 1
            ELSE IF t.jk = "Ijk_Ret" THEN ps.sp + 1 ELSE ps.sp,
     ret |-> IF t.jk = "Ijk_Call" THEN ps.ip + 1 ELSE ps.ret,
     jk |-> t.jk, bbl_addr |-> ps.ip, cons |-> ps.cons]

\* project.factory.sim_run(state, **run_args) returning: the run is the newest
\* of the result, its successors are new states.
SimRun(H, sid, args, tmpl) ==
    LET ps0 == H.states[sid]
        ps == IF args = "addr" THEN [ps0 EXCEPT !.ip = 32] ELSE ps0
        nf == Len(tmpl.flat)
        nu == Len(tmpl.unconstrained)
        all == tmpl.flat \o tmpl.unconstrained \o tmpl.unsat
        base == Len(H.states)
    IN [H EXCEPT
          !.states = @ \o [i \in 1..Len(all) |-> SuccState(ps, all[i])],
          !.runs = Append(@,
                [addr |-> ps.ip, size |-> 16,
                 flat |-> [i \in 1..nf |-> base + i],
                 unconstrained |-> [i \in 1..nu |-> base + nf + i],
                 unsat |-> [i \in 1..Len(tmpl.unsat) |->
                               base + nf + nu + i]])]

NoRun == [flat |-> <<>>, unconstrained |-> <<>>, unsat |-> <<>>]

\* The answers of the engine: one of the runs, or one of the errors raised.
Outcomes(rs, es) ==
    {[error |-> "None", succ |-> r] : r \in rs}
    \cup {[error |-> e, succ |-> NoRun] : e \in es}

\* Runs with one flat successor of each transfer kind, and a two-way branch.
PlainRuns == {r \in EngineRuns : r.unconstrained = <<>>}

NotInvoked == [error |-> "NotInvoked", succ |-> NoRun]

\* state.copy(): the copy is the newest state of the result.
StateCopy(H, sid) == [H EXCEPT !.states = Append(@, H.states[sid])]

\* state.satisfiable(): no selector is constrained to two values.
Satisfiable(s) ==
    \A x \in s.cons : \A y \in s.cons : x[1] = y[1] => x[2] = y[2]

-----------------------------------------------------------------------------
\* Path.copy, Path._make_sim_run, Path.step

CopyClassAlwaysPath(error) == "Path"

\* The class copy() instantiates.
CopyClass(error) == IF error = "None" THEN "Path" ELSE "ErroredPath"

\* The copy is the newest Path of the result.
PathCopy(H, p, error) ==
    LET pr == H.paths[p]
        H1 == StateCopy(H, pr.state)
        H2 == PathInitRoot(H1, CopyClass(error), error, Len(H1.states))
        q == Len(H2.paths)
        H3 == HistoryCopy(H2, pr.history)
        H4 == CallStackCopy(H3, pr.callstack)
    IN [H4 EXCEPT
          !.oids = @ + 1,
          !.paths[q] = [@ EXCEPT
              !.history = Len(H3.hist),
              !.callstack = Len(H4.stacks),
              !.popped_callframe = pr.popped_callframe,
              !.run = pr.run,
              !.ledger = H4.oids + 1,
              !.merge_flags = pr.merge_flags,
              !.merge_values = pr.merge_values,
              !.merge_addr_traces = pr.merge_addr_traces,
              !.merge_depths = pr.merge_depths]]

\* The exceptions the two except clauses of _make_sim_run catch.
CaughtErrors == {"SimError"} \cup {"MemoryError"}

MakeSimRun(H, p, out) ==
    IF out.error = "None"
    THEN LET H1 == SimRun(H, H.paths[p].state, H.paths[p].run_args, out.succ)
         IN [H1 EXCEPT !.paths[p].run = Len(H1.runs),
                       !.paths[p].run_error = "None"]
    ELSE IF out.error \in CaughtErrors
    THEN [H EXCEPT !.paths[p].run = 0, !.paths[p].run_error = out.error]
    ELSE [H EXCEPT !.paths[p].run = 0, !.paths[p].run_error = "None"]

\* Whether _make_sim_run lets the engine's exception out.
MakeSimRunRaises(throw, out) ==
    /\ out.error # "None"
    /\ out.error \in CaughtErrors => throw

StepNeverRefused(kind) == FALSE

\* ErroredPath overrides step: it raises whatever it is given.
StepIsRefused(kind) == kind = "ErroredPath"

\* if self._run_args != run_args or not self._run
StepNeedsRun(pr, args) == pr.run_args # args \/ pr.run = 0

\* The body of Path.step: the heap it leaves, how it ended, the Paths returned.
PathStep(H, p, throw, args, out) ==
    LET need == StepNeedsRun(H.paths[p], args)
        H1 == IF need
              THEN MakeSimRun([H EXCEPT !.paths[p].run_args = args], p, out)
              ELSE H
        pr == H1.paths[p]
    IN IF need /\ MakeSimRunRaises(throw, out)
       THEN [heap |-> H1, outcome |-> out.error, ret |-> <<>>, invoked |-> need]
       ELSE IF pr.run_error # "None"
       THEN LET H2 == PathCopy(H1, p, pr.run_error)
            IN [heap |-> H2, outcome |-> "ok", ret |-> <<Len(H2.paths)>>,
                invoked |-> need]
       ELSE LET flat == H1.runs[pr.run].flat
                H2 == PathInitChildren(H1, p, flat)
                new == Newest(H2, Len(flat))
                H3 == IF /\ args = "insn_bytes"
                         /\ Len(new) = 1
                         /\ PathAddr(H2, p) + H2.runs[pr.run].size
                              = PathAddr(H2, new[1])
                      THEN [H2 EXCEPT !.states[H2.paths[new[1]].state].ip =
                                          PathAddr(H2, p)]
                      ELSE H2
            IN [heap |-> H3, outcome |-> "ok", ret |-> new, invoked |-> need]

-----------------------------------------------------------------------------
\* The record of the last operation

\* filter_actions() called with no argument
NoQuery == [block_addr |-> NoneVal, block_stmt |-> NoneVal,
            insn_addr |-> NoneVal, read_from |-> "None", write_to |-> "None"]

\* What is known of a Path's last step; cleared holds the options of a step
\* whose cached run clear() has dropped since.
NoStep == [args |-> "None", invoked |-> FALSE, engine |-> "NotInvoked",
           throw |-> FALSE, cleared |-> "None"]

OpRecord(op, p) ==
    [op |-> op, path |-> p, others |-> <<>>, args |-> "None", throw |-> FALSE,
     engine |-> "NotInvoked", invoked |-> FALSE, prev |-> NoStep,
     outcome |-> "ok", ret |-> <<>>, value |-> NoneVal, div |-> NoneVal,
     state_merge |-> FALSE, depth |-> 0, query |-> NoQuery, found |-> <<>>,
     compared |-> <<>>]

\* New Paths have not been stepped.
GrowLog(log, H) ==
    [i \in 1..Len(H.paths) |-> IF i <= Len(log) THEN log[i] ELSE NoStep]

InBounds(H) == Len(H.paths) <= MaxPaths

\* Room for n more Paths.
Room(n) == Len(paths) + n <= MaxPaths

\* How many Paths a step of p returns.
StepReturns(p, throw, args, out) ==
    IF StepNeedsRun(paths[p], args)
    THEN IF out.error = "None" THEN Len(out.succ.flat)
         ELSE IF MakeSimRunRaises(throw, out) THEN 0 ELSE 1
    ELSE Len(runs[paths[p].run].flat)

PathIds == 1..Len(paths)

-----------------------------------------------------------------------------
\* Operations

Init ==
    LET E == [paths |-> <<>>, states |-> <<InitialState(16)>>, runs |-> <<>>,
              hist |-> <<>>, stacks |-> <<>>, frames |-> <<>>, oids |-> 0]
        H == PathInitRoot(E, "Path", "None", 1)
    IN /\ paths = H.paths
       /\ states = H.states
       /\ runs = H.runs
       /\ hist = H.hist
       /\ stacks = H.stacks
       /\ frames = H.frames
       /\ oids = H.oids
       /\ calls = 0
       /\ muts = 0
       /\ lastOp = OpRecord("init", 1)
       /\ lastStep = <<NoStep>>

\* Path(project, state) on a fresh state at address a
NewRoot(a) ==
    LET H1 == [Heap EXCEPT !.states = Append(@, InitialState(a))]
        H2 == PathInitRoot(H1, "Path", "None", Len(H1.states))
    IN /\ Room(1)
       /\ InBounds(H2)
       /\ Commit(H2)
       /\ lastOp' = [OpRecord("new", Len(H2.paths)) EXCEPT
                        !.ret = <<Len(H2.paths)>>]
       /\ lastStep' = GrowLog(lastStep, H2)
       /\ UNCHANGED <<calls, muts>>

\* p.step(throw=throw, **args), the engine answering out if it is asked
Step(p, throw, args, out) ==
    /\ ~StepIsRefused(paths[p].kind)
    /\ IF StepNeedsRun(paths[p], args)
       THEN out # NotInvoked /\ calls < MaxCalls
       ELSE out = NotInvoked
    /\ throw => out.error \in EngineErrors
    /\ Room(StepReturns(p, throw, args, out))
    /\ LET r == PathStep(Heap, p, throw, args, out)
       IN /\ InBounds(r.heap)
          /\ Commit(r.heap)
          /\ calls' = IF r.invoked THEN calls + 1 ELSE calls
          /\ UNCHANGED muts
          /\ lastOp' = [OpRecord("step", p) EXCEPT
                           !.args = args,
                           !.throw = throw /\ out.error \in EngineErrors,
                           !.engine = out.error, !.invoked = r.invoked,
                           !.prev = lastStep[p],
                           !.outcome = r.outcome, !.ret = r.ret,
                           !.depth = Len(stacks[paths[p].callstack])]
          /\ lastStep' = [GrowLog(lastStep, r.heap) EXCEPT
                             ![p] = [args |-> args, invoked |-> r.invoked,
                                     engine |-> out.error,
                                     throw |-> throw, cleared |-> "None"]]

KeepRun(r) == r

\* self._run = None
ClearedRun(r) == 0

\* p.clear()
Clear(p) ==
    /\ paths' = [paths EXCEPT ![p].run = ClearedRun(@)]
    /\ lastOp' = [OpRecord("clear", p) EXCEPT !.prev = lastStep[p]]
    /\ lastStep' = [lastStep EXCEPT
                       ![p] = [NoStep EXCEPT
                                  !.cleared = IF lastStep[p].args # "None"
                                              THEN lastStep[p].args
                                              ELSE lastStep[p].cleared]]
    /\ UNCHANGED <<states, runs, hist, stacks, frames, oids, calls, muts>>

\* p.copy()
Copy(p) ==
    LET H1 == PathCopy(Heap, p, "None")
    IN /\ Room(1)
       /\ InBounds(H1)
       /\ Commit(H1)
       /\ lastOp' = [OpRecord("copy", p) EXCEPT !.ret = <<Len(H1.paths)>>]
       /\ lastStep' = GrowLog(lastStep, H1)
       /\ UNCHANGED <<calls, muts>>

\* ErroredPath.step(throw=throw, **args): the arguments are not read
ErroredStep(p, throw, args) ==
    /\ StepIsRefused(paths[p].kind)
    /\ lastOp' = [OpRecord("step", p) EXCEPT
                     !.args = args, !.throw = throw,
                     !.outcome = "AngrPathError"]
    /\ UNCHANGED <<paths, states, runs, hist, stacks, frames, oids, calls, lastStep,
                 muts>>

\* The body of ErroredPath.retry: the options are stored, the engine is
\* called outside any try, and Path.step runs on the result.
PathRetry(H, p, args, out) ==
    LET H0 == [H EXCEPT !.paths[p].run_args = args]
    IN IF out.error # "None"
       THEN [heap |-> H0, outcome |-> out.error, ret |-> <<>>, invoked |-> TRUE]
       ELSE LET H1 == SimRun(H0, H0.paths[p].state, args, out.succ)
                H2 == [H1 EXCEPT !.paths[p].run = Len(H1.runs)]
            IN [PathStep(H2, p, FALSE, args, NotInvoked) EXCEPT
                   !.invoked = TRUE]

\* p.retry(**args) on an ErroredPath, the engine answering out
Retry(p, args, out) ==
    /\ paths[p].kind = "ErroredPath"
    /\ out # NotInvoked
    /\ calls < MaxCalls
    /\ Room(Len(out.succ.flat))
    /\ LET r == PathRetry(Heap, p, args, out)
       IN /\ InBounds(r.heap)
          /\ Commit(r.heap)
          /\ calls' = calls + 1
          /\ UNCHANGED muts
          /\ lastOp' = [OpRecord("retry", p) EXCEPT
                           !.args = args,
                           !.engine = out.error, !.invoked = r.invoked,
                           !.prev = lastStep[p],
                           !.outcome = r.outcome, !.ret = r.ret,
                           !.depth = Len(stacks[paths[p].callstack])]
          /\ lastStep' = [GrowLog(lastStep, r.heap) EXCEPT
                             ![p] = [args |-> args, invoked |-> TRUE,
                                     engine |-> out.error, throw |-> FALSE,
                                     cleared |-> "None"]]

\* p.successors
Successors(p, out) ==
    LET pr == paths[p]
        stepped == pr.run_error # "None" \/ pr.run # 0
        raises == ~stepped \/ pr.kind = "ErroredPath"
        noargs == stepped /\ pr.run_args = "None"
        fails == raises \/ noargs
    IN /\ IF ~fails /\ StepNeedsRun(pr, pr.run_args)
          THEN out # NotInvoked /\ calls < MaxCalls
          ELSE out = NotInvoked
       /\ fails \/ Room(StepReturns(p, FALSE, pr.run_args, out))
       /\ LET r == IF fails
                   THEN [heap |-> Heap,
                         outcome |-> IF ~stepped \/ ~noargs
                                     THEN "AngrPathError" ELSE "TypeError",
                         ret |-> <<>>, invoked |-> FALSE]
                   ELSE PathStep(Heap, p, FALSE, pr.run_args, out)
          IN /\ InBounds(r.heap)
             /\ Commit(r.heap)
             /\ calls' = IF r.invoked THEN calls + 1 ELSE calls
             /\ UNCHANGED muts
             /\ lastOp' = [OpRecord("successors", p) EXCEPT
                              !.args = pr.run_args,
                              !.engine = out.error, !.invoked = r.invoked,
                              !.prev = lastStep[p],
                              !.outcome = r.outcome, !.ret = r.ret,
                              !.depth = Len(stacks[pr.callstack])]
             /\ lastStep' = [GrowLog(lastStep, r.heap) EXCEPT
                                ![p] = IF fails THEN @
                                       ELSE [args |-> pr.run_args,
                                             invoked |-> r.invoked,
                                             engine |-> out.error,
                                             throw |-> FALSE,
                                             cleared |-> "None"]]

ViewGuardLenient(pr) ==
    IF pr.run_error # "None" \/ pr.run = 0 THEN "empty" ELSE "run"

\* The two tests that open next_run and every successor view but successors:
\* a captured failure answers with nothing, a Path without a run is refused.
ViewGuard(pr) ==
    IF pr.run_error # "None" THEN "empty"
    ELSE IF pr.run = 0 THEN "AngrPathError"
    ELSE "run"

\* The states a successor view wraps in child Paths.
ViewStates(pr, view) ==
    IF ViewGuard(pr) # "run" THEN <<>>
    ELSE CASE view = "unconstrained_successors" -> runs[pr.run].unconstrained
           [] view = "unsat_successors" -> runs[pr.run].unsat
           [] view = "nonflat_successors" ->
                  runs[pr.run].flat \o runs[pr.run].unconstrained

\* A view that answers with [ Path(project, s, path=self) for s in ... ]
SuccessorView(p, view) ==
    LET pr == paths[p]
        all == ViewStates(pr, view)
        H1 == IF all = <<>> THEN Heap ELSE PathInitChildren(Heap, p, all)
    IN /\ Room(Len(all))
       /\ InBounds(H1)
       /\ Commit(H1)
       /\ lastOp' = [OpRecord(view, p) EXCEPT
                        !.outcome = IF ViewGuard(pr) = "AngrPathError"
                                    THEN "AngrPathError" ELSE "ok",
                        !.prev = lastStep[p],
                        !.ret = Newest(H1, Len(H1.paths) - Len(paths)),
                        !.depth = Len(stacks[pr.callstack])]
       /\ lastStep' = GrowLog(lastStep, H1)
       /\ UNCHANGED <<calls, muts>>

\* p.unconstrained_successors
UnconstrainedSuccessors(p) == SuccessorView(p, "unconstrained_successors")

\* p.unsat_successors
UnsatSuccessors(p) == SuccessorView(p, "unsat_successors")

\* p.nonflat_successors
NonflatSuccessors(p) == SuccessorView(p, "nonflat_successors")

\* p.next_run
NextRun(p) ==
    LET pr == paths[p]
    IN /\ lastOp' = [OpRecord("next_run", p) EXCEPT
                        !.outcome = IF ViewGuard(pr) = "AngrPathError"
                                    THEN "AngrPathError" ELSE "ok",
                        !.prev = lastStep[p],
                        !.value = IF ViewGuard(pr) = "run" THEN pr.run
                                  ELSE NoneVal]
       /\ UNCHANGED <<paths, states, runs, hist, stacks, frames, oids, calls,
                      lastStep, muts>>

\* p.unconstrained_successor_states
UnconstrainedSuccessorStates(p) ==
    LET pr == paths[p]
    IN /\ lastOp' = [OpRecord("unconstrained_successor_states", p) EXCEPT
                        !.outcome = IF ViewGuard(pr) = "AngrPathError"
                                    THEN "AngrPathError" ELSE "ok",
                        !.prev = lastStep[p],
                        !.found = IF ViewGuard(pr) = "run"
                                  THEN runs[pr.run].unconstrained ELSE <<>>]
       /\ UNCHANGED <<paths, states, runs, hist, stacks, frames, oids, calls,
                      lastStep, muts>>

-----------------------------------------------------------------------------
\* Unmerge and merge

RECURSIVE UnmergeStates(_, _, _, _)
\* The loop of unmerge over the ledger entries from the k-th on: every tracked
\* state is copied once per candidate value, and the satisfiable copies stay.
UnmergeStates(H, pr, sids, k) ==
    IF k > Len(pr.merge_flags) \/ k > Len(pr.merge_values)
    THEN [heap |-> H, sids |-> sids]
    ELSE LET flag == pr.merge_flags[k]
             values == pr.merge_values[k]
             ns == Len(sids)
             n == Len(values) * ns
             base == Len(H.states)
             H1 == [H EXCEPT !.states = @ \o [i \in 1..n |->
                        [H.states[sids[((i - 1) % ns) + 1]] EXCEPT
                            !.cons = @ \cup
                                {<<flag, values[((i - 1) \div ns) + 1]>>}]]]
             new == [i \in 1..n |-> base + i]
             kept == SelectSeq(new, LAMBDA x : Satisfiable(H1.states[x]))
         IN UnmergeStates(H1, pr, kept, k + 1)

\* p.unmerge() on a stepped Path (the new Paths record p's run in their history)
Unmerge(p) ==
    /\ paths[p].run # 0
    /\ paths[p].merge_flags = <<>> => Room(1)
    /\ LET u == UnmergeStates(Heap, paths[p], <<paths[p].state>>, 1)
           H1 == PathInitChildren(u.heap, p, u.sids)
       IN /\ InBounds(H1)
          /\ Commit(H1)
          /\ lastOp' = [OpRecord("unmerge", p) EXCEPT
                           !.ret = Newest(H1, Len(u.sids)),
                           !.depth = Len(stacks[paths[p].callstack])]
          /\ lastStep' = GrowLog(lastStep, H1)
          /\ UNCHANGED <<calls, muts>>

MergePreconditionOthersOnly(H, all) ==
    Cardinality({PathAddr(H, all[i]) : i \in 1..(Len(all) - 1)}) = 1

\* len(set(o.addr for o in all_paths)) == 1
MergePrecondition(H, all) ==
    Cardinality({PathAddr(H, all[i]) : i \in 1..Len(all)}) = 1

MinOf(S) == CHOOSE x \in S : \A y \in S : x <= y

\* The divergence index merge computes from the address lists, counted from 0;
\* None when the shortest list is empty, where the loop variable it reads was
\* never bound.
DivergenceIndex(lists) ==
    LET n == MinOf({Len(lists[j]) : j \in 1..Len(lists)})
        differ == {i \in 0..(n - 1) :
                     Cardinality({lists[j][i + 1] : j \in 1..Len(lists)}) # 1}
    IN IF differ # {} THEN MinOf(differ)
       ELSE IF n = 0 THEN NoneVal
       ELSE (n - 1) + 1

RECURSIVE Rewind(_, _, _)
\* count parent-steps up from node n; 0 when the chain ends before that.
Rewind(hh, n, count) ==
    IF count <= 0 \/ n = 0 THEN n ELSE Rewind(hh, hh[n].parent, count - 1)

\* Python's seq[k] for k >= -len(seq)
PyItem(seq, k) == IF k >= 0 THEN seq[k + 1] ELSE seq[Len(seq) + k + 1]

\* How p.merge(*others) ends, past its precondition.
MergeBody(H, p, others) ==
    LET all == others \o <<p>>
        lists == [i \in 1..Len(all) |-> AddrTrace(H.hist, H.paths[all[i]].history)]
        d == DivergenceIndex(lists)
        ancestor == Rewind(H.hist, H.paths[all[1]].history, Len(lists[1]) - d)
    IN IF d = NoneVal
       THEN [outcome |-> "UnboundLocalError", div |-> d]
       ELSE IF ancestor = 0
       THEN [outcome |-> "AttributeError(NoneType)", div |-> d]
       ELSE IF H.hist[ancestor].addr # PyItem(lists[1], d - 1)
       THEN [outcome |-> "AssertionError", div |-> d]
       ELSE [outcome |-> "AttributeError(length)", div |-> d]

\* p.merge(*others); past the precondition p is a stepped Path (the merged Path
\* records p's run in its history)
Merge(p, others) ==
    LET all == others \o <<p>>
        ok == MergePrecondition(Heap, all)
    IN /\ ok => paths[p].run # 0
       /\ lastOp' = [OpRecord("merge", p) EXCEPT
                        !.others = others,
                        !.state_merge = ok,
                        !.outcome = IF ok THEN MergeBody(Heap, p, others).outcome
                                    ELSE "AngrPathError",
                        !.div = IF ok THEN MergeBody(Heap, p, others).div
                                ELSE NoneVal]
       /\ UNCHANGED <<paths, states, runs, hist, stacks, frames, oids, calls, lastStep,
                 muts>>

-----------------------------------------------------------------------------
\* divergence_addr

RECURSIVE DivergenceLoop(_, _, _)
\* The loop of divergence_addr from index i on: the value returned, or the
\* IndexError an index past a trace's end raises.
DivergenceLoop(t1, t2, i) ==
    LET returns(t, k) ==
            IF k >= Len(t) \/ k < 0 - Len(t)
            THEN [outcome |-> "IndexError", value |-> NoneVal]
            ELSE [outcome |-> "ok", value |-> PyItem(t, k)]
    IN IF i >= (IF Len(t1) >= Len(t2) THEN Len(t1) ELSE Len(t2))
       THEN [outcome |-> "ok", value |-> NoneVal]
       ELSE IF i > Len(t1) THEN returns(t2, i - 1)
       ELSE IF i > Len(t2) THEN returns(t1, i - 1)
       ELSE IF i >= Len(t1) \/ i >= Len(t2)
       THEN [outcome |-> "IndexError", value |-> NoneVal]
       ELSE IF PyItem(t1, i) # PyItem(t2, i) THEN returns(t1, i - 1)
       ELSE DivergenceLoop(t1, t2, i + 1)

PathTrace(p) == AddrTrace(hist, paths[p].history)

\* p.divergence_addr(q)
DivergenceAddr(p, q) ==
    LET r == DivergenceLoop(PathTrace(p), PathTrace(q), 0)
    IN /\ lastOp' = [OpRecord("divergence_addr", p) EXCEPT
                        !.others = <<q>>, !.outcome = r.outcome,
                        !.value = r.value]
       /\ UNCHANGED <<paths, states, runs, hist, stacks, frames, oids, calls, lastStep,
                 muts>>

-----------------------------------------------------------------------------
\* trim_history

PathTrimHistoryInPlace(H, p) ==
    [H EXCEPT !.hist[H.paths[p].history].parent = 0]

\* self.history = self.history.copy(); self.history._parent = None
PathTrimHistory(H, p) ==
    LET H1 == HistoryCopy(H, H.paths[p].history)
        n == Len(H1.hist)
    IN [H1 EXCEPT !.paths[p].history = n, !.hist[n].parent = 0]

\* p.trim_history()
TrimHistory(p) ==
    /\ muts < MaxTrims
    /\ Commit(PathTrimHistory(Heap, p))
    /\ muts' = muts + 1
    /\ lastOp' = OpRecord("trim_history", p)
    /\ UNCHANGED <<calls, lastStep>>

-----------------------------------------------------------------------------

\* A caller's own changes to the CallStack of a Path

\* p.callstack.push(CallFrame(p.state))
CsPush(p) ==
    /\ muts < MaxMuts
    /\ Commit(CallStackPush(Heap, paths[p].callstack,
                            CallFrameOfState(states[paths[p].state])))
    /\ muts' = muts + 1
    /\ lastOp' = OpRecord("cs_push", p)
    /\ UNCHANGED <<calls, lastStep>>

\* p.callstack.pop(), a ValueError on an empty CallStack
CsPop(p) ==
    /\ muts < MaxMuts
    /\ IF Len(stacks[paths[p].callstack]) = 0
       THEN /\ UNCHANGED <<paths, states, runs, hist, stacks, frames, oids>>
            /\ lastOp' = [OpRecord("cs_pop", p) EXCEPT !.outcome = "ValueError"]
       ELSE /\ Commit(CallStackPop(Heap, paths[p].callstack))
            /\ lastOp' = OpRecord("cs_pop", p)
    /\ muts' = muts + 1
    /\ UNCHANGED <<calls, lastStep>>

\* p.callstack.top.block_counter[a] += 1, a ValueError on an empty CallStack
CsCount(p, a) ==
    /\ muts < MaxMuts
    /\ Commit(CountBlock(Heap, paths[p].callstack, a))
    /\ lastOp' = [OpRecord("cs_count", p) EXCEPT
                     !.outcome = IF Len(stacks[paths[p].callstack]) = 0
                                 THEN "ValueError" ELSE "ok"]
    /\ muts' = muts + 1
    /\ UNCHANGED <<calls, lastStep>>

\* The CallStacks (bottom frame first) that are compared: of a root, of
\* branches after calls, system calls and returns, with and without counts.
StackInputs ==
    LET R == CallFrame(16, 8, UNAVAILABLE_RET_ADDR, "None")
        Z == CallFrame(0, 0, 0, "None")
        C == CallFrame(32, 8, 16, "Ijk_Call")
        S == CallFrame(32, 8, 16, "Ijk_Sys_syscall")
        N == [C EXCEPT !.block_counter[16] = 1]
        F == CallFrame(16, 8, 16, "Ijk_Call")
        P == CallFrame(32, 7, 16, "Ijk_Call")
        A == CallFrame(32, 8, NoneVal, "Ijk_Call")
    IN {<<R>>, <<Z>>, <<R, C>>, <<R, S>>, <<R, N>>, <<R, F>>, <<R, P>>,
        <<R, A>>, <<Z, C>>, <<R, C, C>>, <<R, C, S>>}

\* a == b, hash(a), hash(b) for two CallStacks holding the frames s1 and s2
CompareStacks(s1, s2) ==
    LET n == Len(frames)
        H == [Heap EXCEPT
                !.frames = @ \o s1 \o s2,
                !.stacks = @ \o <<[i \in 1..Len(s1) |-> n + i],
                                  [i \in 1..Len(s2) |-> n + Len(s1) + i]>>]
        c1 == Len(stacks) + 1
        c2 == Len(stacks) + 2
    IN /\ lastOp' = [OpRecord("cs_eq", 1) EXCEPT
                        !.compared = <<s1, s2>>,
                        !.outcome = IF CallStackEq(H, c1, c2)
                                    THEN "True" ELSE "False",
                        !.found = <<CallStackHash(H, c1), CallStackHash(H, c2)>>]
       /\ UNCHANGED <<paths, states, runs, hist, stacks, frames, oids, calls,
                      lastStep, muts>>

\* filter_actions

\* The values of read_from and write_to: absent, any register, any memory, a
\* register by name (one the architecture has, one it has not), a memory
\* address.
Locations == {"None", "reg", "mem", "rax", "zz", "@16"}

\* project.arch.registers[name][0], a KeyError for an unknown name
Registers == [n \in {"rax"} |-> 16]

Queries ==
    [block_addr : {NoneVal, 16}, block_stmt : {NoneVal, 0},
     insn_addr : {NoneVal, 16}, read_from : Locations, write_to : Locations]

\* A SimAction of the history: what it touched and where it was generated.
Action(type, action, addr, bbl_addr, stmt_idx, sim_procedure) ==
    [type |-> type, action |-> action, addr |-> addr, bbl_addr |-> bbl_addr,
     stmt_idx |-> stmt_idx, sim_procedure |-> sim_procedure]

\* The action histories (self.actions, oldest first) a Path may hold.
ActionLists ==
    LET r == Action("reg", "read", 16, 16, 0, "None")
        w == Action("mem", "write", 16, 32, 1, "None")
        h == Action("mem", "read", 16, 16, 0, "hook")
    IN {<<>>, <<r, w>>, <<w, h, r>>}

\* The statements of a lifted block: an instruction mark, then one statement.
BlockStmts == 2

\* addr_of_stmt: the address of the instruction statement stmt_idx belongs to.
AddrOfStmt(bbl_addr, stmt_idx) ==
    IF stmt_idx = NoneVal THEN NoneVal
    ELSE IF stmt_idx >= BlockStmts THEN NoneVal
    ELSE bbl_addr

\* (type, offset) of a location, offset None for any register or any memory.
LocationOf(loc) ==
    IF loc \in {"reg", "mem"} THEN [type |-> loc, offset |-> NoneVal]
    ELSE IF loc = "@16" THEN [type |-> "mem", offset |-> 16]
    ELSE [type |-> "reg", offset |-> Registers[loc]]

\* A register name the architecture does not have.
UnknownRegister(loc) ==
    loc \notin {"None", "reg", "mem", "@16"} /\ loc \notin DOMAIN Registers

\* action_reads and action_writes
ActionTouches(x, kind, loc) ==
    /\ x.type = LocationOf(loc).type
    /\ x.action = kind
    /\ LocationOf(loc).offset = NoneVal \/ x.addr = LocationOf(loc).offset

FilterNeverRejects(q) == FALSE

\* read_from and write_to are both given
FilterRejects(q) == q.read_from # "None" /\ q.write_to # "None"

RECURSIVE Reversed(_)
Reversed(seq) ==
    IF seq = <<>> THEN <<>> ELSE Append(Reversed(Tail(seq)), Head(seq))

\* The body of filter_actions on the action history acts.
PathFilterActions(q, acts) ==
    IF FilterRejects(q)
    THEN [outcome |-> "ValueError", found |-> <<>>]
    ELSE IF UnknownRegister(q.read_from) \/ UnknownRegister(q.write_to)
    THEN [outcome |-> "KeyError", found |-> <<>>]
    ELSE LET keep(x) ==
                 /\ q.block_addr = NoneVal \/ x.bbl_addr = q.block_addr
                 /\ q.block_stmt = NoneVal \/ x.stmt_idx = q.block_stmt
                 /\ q.read_from = "None" \/ ActionTouches(x, "read", q.read_from)
                 /\ q.write_to = "None" \/ ActionTouches(x, "write", q.write_to)
                 /\ \/ q.insn_addr = NoneVal
                    \/ /\ x.sim_procedure = "None"
                       /\ AddrOfStmt(x.bbl_addr, x.stmt_idx) = q.insn_addr
         IN [outcome |-> "ok", found |-> SelectSeq(Reversed(acts), keep)]

\* p.filter_actions(**q) on a Path whose action history is acts
FilterActions(p, q, acts) ==
    /\ lastOp' = [OpRecord("filter_actions", p) EXCEPT
                     !.query = q,
                     !.outcome = PathFilterActions(q, acts).outcome,
                     !.found = PathFilterActions(q, acts).found]
    /\ UNCHANGED <<paths, states, runs, hist, stacks, frames, oids, calls,
                   lastStep, muts>>

-----------------------------------------------------------------------------
\* detect_loops

\* The counts of every frame of the CallStack.
DetectLoopsAnyFrame(H, p) ==
    LET seen == UNION {{H.frames[f].block_counter[a] : a \in CounterKeys} :
                          f \in Range(H.stacks[H.paths[p].callstack])} \ {0}
    IN IF seen = {} THEN NoneVal ELSE CHOOSE n \in seen : \A m \in seen : m <= n

\* The value of p.detect_loops() on a CallStack with a top frame:
\* most_common() lists the recorded addresses, the most visited first.
PathDetectLoops(H, p) ==
    LET bc == H.frames[CallStackTop(H, H.paths[p].callstack)].block_counter
        mc == {bc[a] : a \in {k \in CounterKeys : bc[k] > 0}}
    IN IF mc = {} THEN NoneVal ELSE CHOOSE n \in mc : \A m \in mc : m <= n

\* p.detect_loops(), a ValueError on an empty CallStack
DetectLoops(p) ==
    /\ lastOp' = IF Len(stacks[paths[p].callstack]) = 0
                 THEN [OpRecord("detect_loops", p) EXCEPT
                          !.outcome = "ValueError"]
                 ELSE [OpRecord("detect_loops", p) EXCEPT
                          !.value = PathDetectLoops(Heap, p)]
    /\ UNCHANGED <<paths, states, runs, hist, stacks, frames, oids, calls,
                   lastStep, muts>>

-----------------------------------------------------------------------------

StepWith(argsets, outs) ==
    \E p \in PathIds, throw \in BOOLEAN, args \in argsets,
       out \in outs \cup {NotInvoked} : Step(p, throw, args, out)

\* Making Paths: stepping with the default options under every transfer kind,
\* copying and unmerging.
Next ==
    \/ StepWith({"{}"}, Outcomes(PlainRuns, {"SimError"}))
    \/ \E p \in PathIds : Copy(p)
    \/ \E p \in PathIds : Unmerge(p)

Spec == Init /\ [][Next]_vars

\* A run that moves on by one block.
BlockRuns == {r \in PlainRuns : r.flat = <<Succ("Ijk_Boring", 32)>>}

\* The answers of the engine that shape the address traces: a dead end and a
\* run that moves on by one block.
TraceOutcomes ==
    Outcomes(BlockRuns \cup {r \in PlainRuns : r.flat = <<>>}, {})

\* Merging and unmerging the Paths that stepping and copying make.
NextMerge ==
    \/ StepWith({"{}"}, TraceOutcomes)
    \/ \E p \in PathIds : Copy(p)
    \/ \E p \in PathIds : Unmerge(p)
    \/ \E p \in PathIds, q \in PathIds : Merge(p, <<q>>)

SpecMerge == Init /\ [][NextMerge]_vars

\* The answers of the engine that matter to the cache of a step: a run that
\* moves on by one block, and every error.
StepOutcomes == Outcomes(BlockRuns, EngineErrors)

\* Stepping under every option set, and the cache of the transfer result.
NextStep ==
    \/ StepWith({"{}", "insn_bytes"}, StepOutcomes)
    \/ \E p \in PathIds : Clear(p)
    \/ \E p \in PathIds, throw \in BOOLEAN, args \in {"{}", "insn_bytes"} :
          ErroredStep(p, throw, args)

SpecStep == Init /\ [][NextStep]_vars

\* Steps that fail or move on, and retries of the ErroredPaths they return.
NextRetry ==
    \/ \E p \in PathIds : \E out \in StepOutcomes \cup {NotInvoked} :
          Step(p, FALSE, "{}", out)
    \/ \E p \in PathIds : Copy(p)
    \/ \E p \in PathIds, args \in {"{}", "insn_bytes"} :
          \E out \in Outcomes(PlainRuns, EngineErrors) : Retry(p, args, out)

SpecRetry == Init /\ [][NextRetry]_vars

\* Branching in every way: stepping under every transfer kind, the successor
\* views of a run, and unmerging.
NextBranch ==
    \/ \E p \in PathIds :
          \E out \in Outcomes(EngineRuns, {"SimError"}) \cup {NotInvoked} :
             Step(p, FALSE, "{}", out)
    \/ \E p \in PathIds : UnconstrainedSuccessors(p)
    \/ \E p \in PathIds : UnsatSuccessors(p)
    \/ \E p \in PathIds : NonflatSuccessors(p)
    \/ \E p \in PathIds : Unmerge(p)

SpecBranch == Init /\ [][NextBranch]_vars

\* A run with successors in each of its three lists, and a captured failure.
AccessOutcomes == Outcomes({r \in EngineRuns : r.unsat # <<>>}, {"SimError"})

\* Stepping, clearing, copying and reading the cached result through every
\* accessor.
NextAccess ==
    \/ \E p \in PathIds : \E out \in AccessOutcomes \cup {NotInvoked} :
           Step(p, FALSE, "{}", out)
    \/ \E p \in PathIds : Clear(p)
    \/ \E p \in PathIds : \E out \in AccessOutcomes \cup {NotInvoked} :
           Successors(p, out)
    \/ \E p \in PathIds : NextRun(p)
    \/ \E p \in PathIds : UnconstrainedSuccessors(p)
    \/ \E p \in PathIds : UnsatSuccessors(p)
    \/ \E p \in PathIds : NonflatSuccessors(p)
    \/ \E p \in PathIds : UnconstrainedSuccessorStates(p)
    \/ \E p \in PathIds : Copy(p)

SpecAccess == Init /\ [][NextAccess]_vars

\* Every operation that makes or replaces a history node: stepping into a
\* branch or into a captured failure, the successor views, copying, merging,
\* unmerging and trimming.
NextHist ==
    \/ \E p \in PathIds :
          \E out \in Outcomes(BlockRuns, {"SimError"}) \cup {NotInvoked} :
              Step(p, FALSE, "{}", out)
    \/ \E p \in PathIds : NonflatSuccessors(p)
    \/ \E p \in PathIds : Copy(p)
    \/ \E p \in PathIds : Unmerge(p)
    \/ \E p \in PathIds, q \in PathIds : Merge(p, <<q>>)
    \/ \E p \in PathIds : TrimHistory(p)

SpecHist == Init /\ [][NextHist]_vars

\* Traces from several roots, and their comparison.
NextDiv ==
    \/ \E a \in Addrs : NewRoot(a)
    \/ StepWith({"{}", "addr"}, Outcomes(BlockRuns, {}))
    \/ \E p \in PathIds, q \in PathIds : DivergenceAddr(p, q)

SpecDiv == Init /\ [][NextDiv]_vars

\* Copies, and a caller's own changes to the CallStacks.
NextCS ==
    \/ \E p \in PathIds : Copy(p)
    \/ \E p \in PathIds : CsPush(p)
    \/ \E p \in PathIds : CsPop(p)
    \/ \E p \in PathIds : CsCount(p, 16)

SpecCS == Init /\ [][NextCS]_vars

\* Comparing every two of the CallStacks.
NextEq == \E s1 \in StackInputs, s2 \in StackInputs : CompareStacks(s1, s2)

SpecEq == Init /\ [][NextEq]_vars

\* Loop detection on a CallStack a caller pushes, pops and counts on.
NextLoops ==
    \/ \E p \in PathIds : CsPush(p)
    \/ \E p \in PathIds : CsPop(p)
    \/ \E p \in PathIds, a \in Addrs : CsCount(p, a)
    \/ \E p \in PathIds : DetectLoops(p)

SpecLoops == Init /\ [][NextLoops]_vars

\* Filtering an action history under every query.
NextFilter ==
    \E p \in PathIds, q \in Queries, acts \in ActionLists :
       FilterActions(p, q, acts)

SpecFilter == Init /\ [][NextFilter]_vars

-----------------------------------------------------------------------------
\* Properties

IsChildOf(c, p) ==
    paths[c].kind = "Path" /\ hist[paths[c].history].parent = paths[p].history

\* The Paths the last operation returned that are branches of the Path it
\* was called on.
Branches ==
    {c \in Range(lastOp.ret) : c # lastOp.path /\ IsChildOf(c, lastOp.path)}

IsSentinel(f) == f.func_addr = 0 /\ f.stack_ptr = 0 /\ f.ret_addr = 0

\* C1: the CallStack of every Path holds at least one frame, whatever the
\* transfer kinds were; and a branch made by a return that popped the last
\* frame of its parent's CallStack holds exactly one frame, the sentinel with
\* function address 0, stack pointer 0 and return address 0.
CallStackNeverEmpty ==
    /\ \A p \in PathIds : Len(stacks[paths[p].callstack]) >= 1
    /\ \A c \in Branches :
          (states[paths[c].state].jk = "Ijk_Ret" /\ lastOp.depth = 1) =>
             /\ Len(stacks[paths[c].callstack]) = 1
             /\ IsSentinel(frames[stacks[paths[c].callstack][1]])

\* A second return in a row: the frame popped was itself the sentinel.
SentinelAfterSentinel ==
    \E c \in Branches :
       /\ states[paths[c].state].jk = "Ijk_Ret"
       /\ lastOp.depth = 1
       /\ paths[c].popped_callframe # 0
       /\ IsSentinel(frames[paths[c].popped_callframe])
       /\ Len(stacks[paths[c].callstack]) = 1

\* The earlier step call ended in a successful transfer or a captured failure.
PrevSettled ==
    \/ lastOp.prev.engine = "None"
    \/ lastOp.prev.engine \in CaughtErrors /\ ~lastOp.prev.throw

\* C2: of two step calls in a row on one Path with the same options and no
\* clear() between them, at most one invokes the transfer engine, whether the
\* first ended in a successful transfer or in a captured failure.
StepInvokesEngineOnce ==
    (lastOp.op = "step" /\ lastOp.prev.args = lastOp.args /\ PrevSettled) =>
        ~(lastOp.prev.invoked /\ lastOp.invoked)

\* C3: when the engine raises a recognized failure during step, then without
\* throw the call returns exactly one ErroredPath that holds the failure and
\* has the address and the CallStack content of the stepped Path, on the first
\* call and on every later one; with throw the failure is raised instead.
FailureCaptured ==
    (lastOp.op = "step" /\ lastOp.engine \in CaughtErrors) =>
        IF lastOp.throw
        THEN lastOp.outcome = lastOp.engine /\ lastOp.ret = <<>>
        ELSE /\ lastOp.outcome = "ok"
             /\ Len(lastOp.ret) = 1
             /\ LET e == lastOp.ret[1]
                    p == lastOp.path
                IN /\ paths[e].kind = "ErroredPath"
                   /\ paths[e].error = lastOp.engine
                   /\ PathAddr(Heap, e) = PathAddr(Heap, p)
                   /\ CallStackContent(frames, stacks, paths[e].callstack)
                         = CallStackContent(frames, stacks, paths[p].callstack)

\* The engine failed again on a later call with the same options.
FailedAgain ==
    /\ lastOp.op = "step"
    /\ lastOp.engine \in CaughtErrors
    /\ ~lastOp.throw
    /\ lastOp.prev.engine \in CaughtErrors
    /\ lastOp.prev.args = lastOp.args
    /\ Len(lastOp.ret) = 1
    /\ paths[lastOp.ret[1]].kind = "ErroredPath"

SameAddr(ps, ss, ids) ==
    \A i \in 1..Len(ids) : \A j \in 1..Len(ids) :
       ss[ps[ids[i]].state].ip = ss[ps[ids[j]].state].ip

\* C4: a merge whose participants (self and the others) are not all at one
\* address fails with AngrPathError, the merge of the states is not invoked,
\* and no Path, state, history, CallStack or ledger changes.
MergeAtDifferentAddrsFails ==
    [][(lastOp'.op = "merge"
          /\ ~SameAddr(paths, states, lastOp'.others \o <<lastOp'.path>>)) =>
            /\ lastOp'.outcome = "AngrPathError"
            /\ ~lastOp'.state_merge
            /\ UNCHANGED <<paths, states, runs, hist, stacks, frames, oids>>]_vars

\* A merge of two Paths at different addresses was refused.
MergeRefused ==
    /\ lastOp.op = "merge"
    /\ lastOp.outcome = "AngrPathError"
    /\ ~SameAddr(paths, states, lastOp.others \o <<lastOp.path>>)

MergeTraces ==
    [i \in 1..(Len(lastOp.others) + 1) |->
        PathTrace((lastOp.others \o <<lastOp.path>>)[i])]

\* The participants of the last merge are different Paths at one address, and
\* their traces start with the same address.
MergeOfStepped ==
    /\ lastOp.op = "merge"
    /\ lastOp.path \notin Range(lastOp.others)
    /\ SameAddr(paths, states, lastOp.others \o <<lastOp.path>>)
    /\ \A i \in 1..Len(MergeTraces) :
          MergeTraces[i] # <<>> /\ MergeTraces[i][1] = MergeTraces[1][1]

\* The first position, counted from 0, where the traces disagree, or the
\* length of the shortest trace.
FirstDisagreement(lists) ==
    LET n == MinOf({Len(lists[j]) : j \in 1..Len(lists)})
    IN MinOf({i \in 0..n : i = n \/ \E j \in 1..Len(lists) :
                                      lists[j][i + 1] # lists[1][i + 1]})

\* C5: a merge of stepped Paths at one address that share a prefix of their
\* address traces returns a new Path, and the length of that Path is the
\* divergence index of the traces.
MergeSucceeds ==
    MergeOfStepped =>
        /\ lastOp.outcome = "ok"
        /\ Len(lastOp.ret) = 1
        /\ PathLength(Heap, lastOp.ret[1]) = FirstDisagreement(MergeTraces)

\* The number of assignments of a candidate value to every selector of the
\* ledger that the state of the Path can satisfy.
FeasibleCount(pr) ==
    LET n == Len(pr.merge_flags)
        all == UNION {Range(pr.merge_values[k]) : k \in 1..n}
    IN Cardinality({f \in [1..n -> all] :
          /\ \A k \in 1..n : f[k] \in Range(pr.merge_values[k])
          /\ Satisfiable([states[pr.state] EXCEPT
                !.cons = @ \cup {<<pr.merge_flags[k], f[k]>> : k \in 1..n}])})

\* C6: unmerge returns one Path for each feasible assignment of the ledger's
\* selectors and none for the others; the Path a merge of two Paths returns
\* has one selector with two values, and its unmerge returns exactly two.
UnmergeFeasible ==
    /\ lastOp.op = "unmerge" =>
          Len(lastOp.ret) = FeasibleCount(paths[lastOp.path])
    /\ (MergeOfStepped /\ Len(lastOp.others) = 1) =>
          /\ lastOp.outcome = "ok"
          /\ Len(lastOp.ret) = 1
          /\ Len(paths[lastOp.ret[1]].merge_flags) = 1
          /\ FeasibleCount(paths[lastOp.ret[1]]) = 2

CsOps == {"cs_push", "cs_pop", "cs_count"}

\* C7: copy() returns a Path at the same address whose CallStack is another
\* object with equal frames and counters; and a push, a pop or a count on the
\* CallStack of one Path leaves the CallStack content of every other Path,
\* its copies and its original among them, as it was.
CopyIsIndependent ==
    [][/\ lastOp'.op = "copy" =>
            LET p == lastOp'.path
                q == lastOp'.ret[1]
            IN /\ states'[paths'[q].state].ip = states'[paths'[p].state].ip
               /\ paths'[q].callstack # paths'[p].callstack
               /\ CallStackContent(frames', stacks', paths'[q].callstack)
                     = CallStackContent(frames', stacks', paths'[p].callstack)
       /\ lastOp'.op \in CsOps =>
            \A q \in PathIds \ {lastOp'.path} :
               CallStackContent(frames', stacks', paths'[q].callstack)
                  = CallStackContent(frames, stacks, paths[q].callstack)]_vars

\* A Path and its copy whose counters differ after a count on one of them.
CopyDiverged ==
    /\ lastOp.op = "cs_count"
    /\ lastOp.outcome = "ok"
    /\ \E q \in PathIds \ {lastOp.path} :
          /\ hist[paths[q].history] = hist[paths[lastOp.path].history]
          /\ Len(stacks[paths[q].callstack])
                = Len(stacks[paths[lastOp.path].callstack])
          /\ CallStackContent(frames, stacks, paths[q].callstack)
                # CallStackContent(frames, stacks, paths[lastOp.path].callstack)

\* C8: no two Paths hold the same state, the same CallStack, the same cached
\* transfer result or the same ledger.
NoAliasing ==
    \A p \in PathIds : \A q \in PathIds \ {p} :
       /\ paths[p].state # paths[q].state
       /\ paths[p].callstack # paths[q].callstack
       /\ paths[p].run = 0 \/ paths[p].run # paths[q].run
       /\ paths[p].ledger # paths[q].ledger

IsStrictPrefix(s, t) == Len(s) < Len(t) /\ SubSeq(t, 1, Len(s)) = s

\* C9: divergence_addr on two traces of which one is a strict prefix of the
\* other returns the last address of the shorter trace, in either order.
DivergenceAtPrefixEnd ==
    LET t1 == PathTrace(lastOp.path)
        t2 == PathTrace(lastOp.others[1])
    IN (lastOp.op = "divergence_addr" /\ t1 # <<>> /\ t2 # <<>>
          /\ (IsStrictPrefix(t1, t2) \/ IsStrictPrefix(t2, t1))) =>
            /\ lastOp.outcome = "ok"
            /\ lastOp.value = IF Len(t1) < Len(t2) THEN Last(t1) ELSE Last(t2)

\* The positions, counted from 1, at which both traces hold an address and
\* the addresses differ.
Mismatches(t1, t2) ==
    {i \in 1..Len(t1) : i <= Len(t2) /\ t1[i] # t2[i]}

\* C10: divergence_addr on two traces that first differ at a position within
\* both returns the common address just before that position, and no address
\* when they differ at the first position.
DivergenceBeforeMismatch ==
    LET t1 == PathTrace(lastOp.path)
        t2 == PathTrace(lastOp.others[1])
        m == MinOf(Mismatches(t1, t2))
    IN (lastOp.op = "divergence_addr" /\ Mismatches(t1, t2) # {}) =>
          /\ lastOp.outcome = "ok"
          /\ lastOp.value = IF m = 1 THEN NoneVal ELSE t1[m - 1]

\* The visit counter of the top frame of the Path of the last operation.
TopCounter == frames[Last(stacks[paths[lastOp.path].callstack])].block_counter

\* C11: detect_loops returns the highest count among the addresses recorded
\* in the counter of the top frame, whatever the lower frames hold, and
\* nothing exactly when no address is recorded there.
DetectLoopsIsTopMaximum ==
    (lastOp.op = "detect_loops" /\ lastOp.outcome = "ok") =>
        LET visited == {a \in CounterKeys : TopCounter[a] > 0}
        IN IF visited = {}
           THEN lastOp.value = NoneVal
           ELSE /\ \E a \in visited : lastOp.value = TopCounter[a]
                /\ \A a \in visited : TopCounter[a] <= lastOp.value

\* One address was counted more often than another in the top frame.
LoopCountAboveOthers ==
    /\ lastOp.op = "detect_loops"
    /\ lastOp.value >= 2
    /\ \E a \in CounterKeys : TopCounter[a] > 0 /\ TopCounter[a] < lastOp.value

\* C12: filter_actions with read_from and write_to both given fails with an
\* error and returns nothing, whatever the other arguments and the action
\* history are, and changes no Path.
FilterRejectsReadAndWrite ==
    [][(/\ lastOp'.op = "filter_actions"
        /\ lastOp'.query.read_from # "None"
        /\ lastOp'.query.write_to # "None") =>
            /\ lastOp'.outcome = "ValueError"
            /\ lastOp'.found = <<>>
            /\ UNCHANGED <<paths, states, runs, hist, stacks, frames, oids>>]_vars

\* A call with all five arguments given was refused.
FilterRefused ==
    /\ lastOp.op = "filter_actions"
    /\ lastOp.outcome = "ValueError"
    /\ lastOp.query.read_from = "mem"
    /\ lastOp.query.write_to = "reg"
    /\ lastOp.query.block_addr # NoneVal
    /\ lastOp.query.block_stmt # NoneVal
    /\ lastOp.query.insn_addr # NoneVal

\* C13: step on an ErroredPath fails with AngrPathError whatever it is
\* given, does not invoke the engine, and leaves the state, the history, the
\* CallStack, the cached run and the error of the ErroredPath as they were.
ErroredPathCannotStep ==
    [][(lastOp'.op = "step" /\ paths[lastOp'.path].kind = "ErroredPath") =>
            /\ lastOp'.outcome = "AngrPathError"
            /\ lastOp'.ret = <<>>
            /\ ~lastOp'.invoked
            /\ calls' = calls
            /\ UNCHANGED <<paths, states, runs, hist, stacks, frames, oids>>]_vars

\* step(throw=True, insn_bytes=...) was refused on an ErroredPath.
ErroredStepRefused ==
    /\ lastOp.op = "step"
    /\ paths[lastOp.path].kind = "ErroredPath"
    /\ lastOp.outcome = "AngrPathError"
    /\ lastOp.throw
    /\ lastOp.args = "insn_bytes"

\* C14: a MemoryError of the engine during step reaches the caller also
\* without throw: step returns no ErroredPath for it and the Path holds no
\* captured error.
MemoryErrorPropagates ==
    (lastOp.op = "step" /\ lastOp.engine = "MemoryError") =>
        /\ lastOp.outcome = "MemoryError"
        /\ lastOp.ret = <<>>
        /\ paths[lastOp.path].run_error = "None"

AccessorOps ==
    {"successors", "next_run", "unconstrained_successors", "unsat_successors",
     "nonflat_successors", "unconstrained_successor_states"}

\* C15: a step that follows clear() with the options of the cleared step
\* invokes the engine again; and from clear() to the next step, next_run and
\* every successor view of a Path whose last transfer succeeded raise
\* AngrPathError, hand out nothing and leave the engine alone.
ClearForcesRecompute ==
    [][/\ (lastOp'.op = "step" /\ lastOp'.prev.cleared = lastOp'.args) =>
              lastOp'.invoked
       /\ (/\ lastOp'.op \in AccessorOps
           /\ lastOp'.prev.cleared # "None"
           /\ paths[lastOp'.path].run_error = "None") =>
              /\ lastOp'.outcome = "AngrPathError"
              /\ lastOp'.ret = <<>>
              /\ lastOp'.value = NoneVal
              /\ lastOp'.found = <<>>
              /\ calls' = calls]_vars

\* A step after clear() with the cleared step's options ran the engine.
SteppedAfterClear ==
    /\ lastOp.op = "step"
    /\ lastOp.prev.cleared = lastOp.args
    /\ lastOp.invoked
    /\ lastOp.outcome = "ok"

\* A Path as its constructor leaves it: no options, no run, no failure.
NeverStepped(pr) ==
    pr.run_args = "None" /\ pr.run = 0 /\ pr.run_error = "None"

ExtendsByOne(s, t) == Len(s) = Len(t) + 1 /\ SubSeq(s, 1, Len(t)) = t

\* C17: a successful merge of n Paths returns a Path whose ledger is the ledger
\* of the Path merge was called on with one entry appended to each of its
\* sequences: a selector, the n candidate values 0..n-1, the participants'
\* address traces, and the divergence index as depth; the ledgers of the
\* participants are left as they were, which the merge action shows by leaving
\* every Path unchanged.
MergeAppendsLedgerEntry ==
    MergeOfStepped =>
        /\ lastOp.outcome = "ok"
        /\ Len(lastOp.ret) = 1
        /\ LET m == paths[lastOp.ret[1]]
               self == paths[lastOp.path]
               n == Len(lastOp.others) + 1
           IN /\ ExtendsByOne(m.merge_flags, self.merge_flags)
              /\ ExtendsByOne(m.merge_values, self.merge_values)
              /\ ExtendsByOne(m.merge_addr_traces, self.merge_addr_traces)
              /\ ExtendsByOne(m.merge_depths, self.merge_depths)
              /\ Last(m.merge_values) = [i \in 1..n |-> i - 1]
              /\ Last(m.merge_addr_traces) = MergeTraces
              /\ Last(m.merge_depths) = FirstDisagreement(MergeTraces)

\* C18: unmerge consumes the ledger: a merge leaves a Path with a pending
\* entry for unmerge to process, and the Paths unmerge returns have no pending
\* entry left, so that unmerge on one of them expands nothing again.
UnmergeConsumesLedger ==
    /\ lastOp.op = "unmerge" =>
          \A i \in 1..Len(lastOp.ret) :
              /\ paths[lastOp.ret[i]].merge_flags = <<>>
              /\ paths[lastOp.ret[i]].merge_values = <<>>
    /\ MergeOfStepped =>
          /\ lastOp.outcome = "ok"
          /\ Len(lastOp.ret) = 1
          /\ Len(paths[lastOp.ret[1]].merge_flags) =
                 Len(paths[lastOp.path].merge_flags) + 1
          /\ Len(UnmergeStates(Heap, paths[lastOp.ret[1]],
                               <<paths[lastOp.ret[1]].state>>, 1).sids) >= 1

\* The addresses that identify a frame.
FrameAddrs(f) == <<f.func_addr, f.stack_ptr, f.ret_addr>>

StackAddrs(c) ==
    [i \in 1..Len(stacks[c]) |-> FrameAddrs(frames[stacks[c][i]])]

\* C19: the CallStack of a branch is its parent's changed by one transition
\* that the transfer kind of the branch's state selects: a call or a system
\* call pushes one frame made from that state; a return pops the top frame
\* and keeps it as the last-popped frame, and leaves the sentinel alone on the
\* stack when the parent had one frame; any other kind leaves the frame
\* addresses and the last-popped frame as the parent has them.
CallStackTransition ==
    \A c \in Branches :
        LET s == states[paths[c].state]
            P == StackAddrs(paths[lastOp.path].callstack)
            C == StackAddrs(paths[c].callstack)
        IN IF s.jk = "Ijk_Call" \/ s.jk \in SysKinds
           THEN /\ Len(C) = Len(P) + 1
                /\ SubSeq(C, 1, Len(P)) = P
                /\ Last(C) = <<s.ip, s.sp, s.ret>>
           ELSE IF s.jk = "Ijk_Ret"
           THEN /\ paths[c].popped_callframe # 0
                /\ FrameAddrs(frames[paths[c].popped_callframe]) = Last(P)
                /\ IF Len(P) = 1
                   THEN C = <<<<0, 0, 0>>>>
                   ELSE C = SubSeq(P, 1, Len(P) - 1)
           ELSE /\ C = P
                /\ paths[c].popped_callframe =
                       paths[lastOp.path].popped_callframe

\* A return from a call: the branch is back at its grandparent's depth and
\* keeps the callee's frame as the last popped.
ReturnedFromCall ==
    \E c \in Branches :
       /\ states[paths[c].state].jk = "Ijk_Ret"
       /\ lastOp.depth = 2
       /\ Len(stacks[paths[c].callstack]) = 1
       /\ ~IsSentinel(frames[paths[c].popped_callframe])
       /\ ~IsSentinel(frames[stacks[paths[c].callstack][1]])

\* The visit counters of the frames of a CallStack, bottom frame first.
StackCounters(c) ==
    [i \in 1..Len(stacks[c]) |-> frames[stacks[c][i]].block_counter]

\* The counters a branch starts from, before the block of its state is
\* counted: the parent's, with an empty counter for a pushed frame or for the
\* sentinel, and without the counter of a popped frame.
CountersBeforeCount(P, jk) ==
    IF jk = "Ijk_Call" \/ jk \in SysKinds THEN Append(P, EmptyCounter)
    ELSE IF jk # "Ijk_Ret" THEN P
    ELSE IF Len(P) = 1 THEN <<EmptyCounter>>
    ELSE SubSeq(P, 1, Len(P) - 1)

\* C20: whatever the transfer kind, a branch counts the block address its
\* state carries once, in the frame that is on top after the push or pop; every
\* other count of that frame and every count of the frames below it is the
\* parent's, and a pushed frame starts from an empty counter of its own.
BlockCountedOnceOnTop ==
    \A c \in Branches :
        LET s == states[paths[c].state]
            B == CountersBeforeCount(
                     StackCounters(paths[lastOp.path].callstack), s.jk)
        IN StackCounters(paths[c].callstack) =
               [B EXCEPT ![Len(B)][s.bbl_addr] = @ + 1]

\* A call from a block the caller's frame has already counted: the callee's
\* frame counts it for the first time.
CalleeCountsAfresh ==
    \E c \in Branches :
        LET s == states[paths[c].state]
            P == StackCounters(paths[lastOp.path].callstack)
            C == StackCounters(paths[c].callstack)
        IN /\ s.jk = "Ijk_Call"
           /\ Last(P)[s.bbl_addr] >= 1
           /\ Last(C)[s.bbl_addr] = 1
           /\ C[Len(P)][s.bbl_addr] = Last(P)[s.bbl_addr]

\* The operations that return branches of the Path they are called on.
BranchingOps ==
    {"step", "successors", "unconstrained_successors", "unsat_successors",
     "nonflat_successors", "unmerge"}

\* C21: no operation changes a history node that exists, and none but
\* trim_history on the Path itself changes which node is a Path's leaf; every
\* operation leaves the address trace, the length, the CallStack content and
\* the ledger of every Path that exists as they were; and the history of each
\* branch returned is a new node whose parent is the leaf of the Path the
\* operation was called on.
HistoryIsPersistent ==
    [][/\ \A n \in 1..Len(hist) : hist'[n] = hist[n]
       /\ \A q \in 1..Len(paths) :
             /\ (lastOp'.op = "trim_history" /\ lastOp'.path = q)
                \/ /\ paths'[q].history = paths[q].history
                   /\ AddrTrace(hist', paths'[q].history) =
                          AddrTrace(hist, paths[q].history)
                   /\ hist'[paths'[q].history].length =
                          hist[paths[q].history].length
             /\ CallStackContent(frames', stacks', paths'[q].callstack) =
                    CallStackContent(frames, stacks, paths[q].callstack)
             /\ paths'[q].popped_callframe = paths[q].popped_callframe
             /\ paths'[q].merge_flags = paths[q].merge_flags
             /\ paths'[q].merge_values = paths[q].merge_values
             /\ paths'[q].merge_addr_traces = paths[q].merge_addr_traces
             /\ paths'[q].merge_depths = paths[q].merge_depths
       /\ lastOp'.op \in BranchingOps =>
             \A c \in Range(lastOp'.ret) :
                 paths'[c].kind = "Path" =>
                    /\ c > Len(paths)
                    /\ paths'[c].history > Len(hist)
                    /\ hist'[paths'[c].history].parent =
                           paths[lastOp'.path].history]_vars

\* A Path was trimmed after it branched: its branch still reaches the root
\* through the leaf the Path had.
TrimmedAfterBranching ==
    /\ lastOp.op = "trim_history"
    /\ hist[paths[lastOp.path].history].parent = 0
    /\ \E c \in PathIds : \E n \in 1..Len(hist) :
          /\ hist[paths[c].history].parent = n
          /\ n # paths[lastOp.path].history
          /\ hist[n].parent # 0
          /\ hist[n] = [hist[paths[lastOp.path].history] EXCEPT
                           !.parent = hist[n].parent]

\* The last operation is a merge of different Paths at one address.
MergePastPrecondition ==
    /\ lastOp.op = "merge"
    /\ lastOp.path \notin Range(lastOp.others)
    /\ SameAddr(paths, states, lastOp.others \o <<lastOp.path>>)

\* C22: in every merge of Paths at one address the integrity check is reached
\* and passes: rewinding the leaf of the first participant by its trace length
\* minus the divergence index ends on a node, and the address of that node is
\* the entry of the first participant's trace just before the divergence
\* index, also when the traces disagree at once or a trace is empty.
MergeIntegrityHolds ==
    MergePastPrecondition =>
        LET L == MergeTraces[1]
            d == FirstDisagreement(MergeTraces)
            anc == Rewind(hist, paths[lastOp.others[1]].history, Len(L) - d)
        IN /\ lastOp.outcome \notin
                 {"UnboundLocalError", "AttributeError(NoneType)",
                  "AssertionError"}
           /\ anc # 0
           /\ d >= 1
           /\ hist[anc].addr = L[d]

\* C23: two CallStacks compare equal exactly when they have the same depth
\* and, frame by frame, the same function address, stack pointer and return
\* address, whatever the visit counters and the transfer kinds of the frames;
\* and two CallStacks that compare equal have the same hash.
CallStackEqIsStructural ==
    lastOp.op = "cs_eq" =>
        LET s1 == lastOp.compared[1]
            s2 == lastOp.compared[2]
        IN /\ lastOp.outcome \in {"True", "False"}
           /\ lastOp.outcome = "True" <=>
                 /\ Len(s1) = Len(s2)
                 /\ \A i \in 1..Len(s1) : FrameAddrs(s1[i]) = FrameAddrs(s2[i])
           /\ lastOp.outcome = "True" => lastOp.found[1] = lastOp.found[2]

\* Two CallStacks compared equal whose top frames differ in the transfer
\* kind and in the counter.
EqualDespiteKindAndCounter ==
    /\ lastOp.op = "cs_eq"
    /\ lastOp.outcome = "True"
    /\ Last(lastOp.compared[1]).jumpkind # Last(lastOp.compared[2]).jumpkind
    /\ Last(lastOp.compared[1]).block_counter #
           Last(lastOp.compared[2]).block_counter

\* C24: retry invokes the engine once with the options it is given and then
\* ends as a step does: on a run it returns one child Path for each flat
\* successor of that run, and on a failure that step captures it returns one
\* ErroredPath holding the failure and raises nothing.
RetryBehavesLikeStep ==
    lastOp.op = "retry" =>
        /\ lastOp.invoked
        /\ paths[lastOp.path].run_args = lastOp.args
        /\ lastOp.engine = "None" =>
              /\ lastOp.outcome = "ok"
              /\ Len(lastOp.ret) = Len(runs[paths[lastOp.path].run].flat)
              /\ \A i \in 1..Len(lastOp.ret) :
                    /\ paths[lastOp.ret[i]].kind = "Path"
                    /\ paths[lastOp.ret[i]].state =
                           runs[paths[lastOp.path].run].flat[i]
        /\ lastOp.engine \in CaughtErrors =>
              /\ lastOp.outcome = "ok"
              /\ Len(lastOp.ret) = 1
              /\ paths[lastOp.ret[1]].kind = "ErroredPath"
              /\ paths[lastOp.ret[1]].error = lastOp.engine

\* C25: every Path has a frame on its CallStack; a Path built as a branch of
\* another (its history node has a parent), and every copy of one, has a
\* recorded block in its top frame, so detect_loops() is a count of at least
\* one and never None; and that holds of each Path a branching operation
\* has just returned, whatever the transfer kind of its state.
BranchHasCountedBlock ==
    /\ \A p \in PathIds :
          /\ Len(stacks[paths[p].callstack]) > 0
          /\ hist[paths[p].history].parent # 0 =>
                /\ PathDetectLoops(Heap, p) # NoneVal
                /\ PathDetectLoops(Heap, p) >= 1
    /\ (lastOp.op \in BranchingOps /\ lastOp.outcome = "ok") =>
          \A i \in 1..Len(lastOp.ret) :
             paths[lastOp.ret[i]].kind = "Path" =>
                /\ hist[paths[lastOp.ret[i]].history].parent # 0
                /\ PathDetectLoops(Heap, lastOp.ret[i]) >= 1

\* A branching operation returned a Path whose top frame was made for it, the
\* sentinel of a return from the last frame, and that frame counts exactly the
\* Path's own block.
FreshFrameCountsOne ==
    /\ lastOp.op \in BranchingOps
    /\ \E i \in 1..Len(lastOp.ret) :
          LET c == lastOp.ret[i]
          IN /\ paths[c].kind = "Path"
             /\ states[paths[c].state].jk = "Ijk_Ret"
             /\ Len(stacks[paths[lastOp.path].callstack]) = 1
             /\ Len(stacks[paths[c].callstack]) = 1
             /\ PathDetectLoops(Heap, c) = 1

====
